---- MODULE Spec2Model ----
(***************************************************************************)
(* Financial-News-Sentiment-Tracker: the daily aggregation pass            *)
(* (services/processor/daily_aggregator.py), the rolling-correlation pass  *)
(* (services/processor/daily_correlation.py), the timeseries reader        *)
(* (services/processor/timeseries_builder.py) and the serving endpoint     *)
(* (services/api/main.py), over the three MongoDB collections              *)
(* price_snapshots, news_events and daily_ticker_metrics.                  *)
(*                                                                         *)
(* Numbers.  Python floats are modelled as exact rationals <<n, d>> in     *)
(* lowest terms with d > 0.  None is NULL.  A Pearson coefficient          *)
(* num / sqrt(den_x * den_y) is the triple <<sign(num), p, q>> with p/q    *)
(* its square in lowest terms, which determines the real number exactly.   *)
(* Rounding, overflow and underflow of IEEE doubles are not modelled.      *)
(*                                                                         *)
(* Time.  An instant is a natural number; a calendar day d covers the      *)
(* instants d*SlotsPerDay .. (d+1)*SlotsPerDay - 1.                        *)
(***************************************************************************)
EXTENDS Integers, Sequences, FiniteSets, TLC

VARIABLES
    prices,     \* collection price_snapshots: a set of candles
    news,       \* collection news_events: documents in natural (retrieval) order
    daily,      \* collection daily_ticker_metrics: documents, _id = position
    uniq_index, \* TRUE once index uniq_ticker_date exists on daily
    clock,      \* wall clock, read by datetime.now / datetime.utcnow
    agg,        \* outcome of the last run_daily_aggregation
    corr_run,   \* outcome of the last run_rolling_corr
    response,   \* last HTTP response of GET /ticker/{ticker}/timeseries
    runs,       \* log of the pipeline runs made so far
    hist,       \* daily as each logged run left it
    call,       \* the last direct call of a function of the processors
    procs,      \* the concurrent run_daily_aggregation processes
    workers,    \* the run_worker processes of sentiment_worker.py
    rescored    \* _ids of the events written while they held a score

vars == <<prices, news, daily, uniq_index, clock, agg, corr_run, response, runs, hist,
          call, procs, workers, rescored>>

-----------------------------------------------------------------------------
(* Bounds of the model *)

SlotsPerDay == 2      \* instants distinguished within one calendar day
MaxCandles == 2       \* candles in price_snapshots
MaxNews == 1          \* documents in news_events
MaxRows == 3          \* rows of one ticker in a stored daily_ticker_metrics
MaxWindow == 3        \* largest window passed to run_rolling_corr
MaxRuns == 4          \* pipeline runs logged in one behaviour
MaxClock == 3         \* clock value after which no unlogged run starts

Days == {0, 1, 2}                 \* calendar days of the upstream data
StoredDays == {0, 1, 2, 4}        \* calendar days of stored daily rows
Closes == {0, 1, 2}               \* close prices
Today == 2                        \* datetime.utcnow().date()
DaysBackSet == {1, 2}             \* days_back passed to run_daily_aggregation
DataTickers == {"AAPL", "MSFT"}   \* tickers the collectors delivered data for

-----------------------------------------------------------------------------
(* Values *)

NULL == <<>>                      \* Python None

RECURSIVE GCD(_, _)
GCD(a, b) == IF b = 0 THEN a ELSE GCD(b, a % b)

Abs(n) == IF n < 0 THEN -n ELSE n

Sign(n) == IF n < 0 THEN -1 ELSE IF n = 0 THEN 0 ELSE 1

\* the rational n/d (d # 0) in lowest terms, denominator positive
Rat(n, d) ==
    LET g == GCD(Abs(n), Abs(d))
        s == IF d < 0 THEN -1 ELSE 1
    IN  <<(s * n) \div g, (s * d) \div g>>

Zero == <<0, 1>>
RAdd(a, b) == Rat(a[1] * b[2] + b[1] * a[2], a[2] * b[2])
RSub(a, b) == Rat(a[1] * b[2] - b[1] * a[2], a[2] * b[2])
RMul(a, b) == Rat(a[1] * b[1], a[2] * b[2])
RDiv(a, b) == Rat(a[1] * b[2], a[2] * b[1])

RECURSIVE RSum(_)
RSum(s) == IF s = <<>> THEN Zero ELSE RAdd(Head(s), RSum(Tail(s)))

\* float(x) of a stored number
Float(x) == Rat(x, 1)

\* dict[k] = v
Put(f, k, v) == [x \in (DOMAIN f) \cup {k} |-> IF x = k THEN v ELSE f[x]]

-----------------------------------------------------------------------------
(* Program constants and date arithmetic *)

TICKERS == <<"AAPL", "MSFT", "TSLA", "NVDA">>

TickerSet == {TICKERS[i] : i \in DOMAIN TICKERS}

\* ts.date(): truncate an instant to its calendar day
DateOf(ts) == ts \div SlotsPerDay

\* start_of_day(d): midnight of calendar day d
start_of_day(d) == d * SlotsPerDay

\* names bound in the module namespace of daily_aggregator.py by
\* "from datetime import datetime, timedelta, date"
AggregatorNames == {"datetime", "timedelta", "date"}

-----------------------------------------------------------------------------
(* daily_aggregator.py: build_price_series *)

\* prices_coll.find({"ticker": ticker}, sort=[("ts", ASCENDING)]) as a list
RECURSIVE SortedByTs(_)
SortedByTs(cs) ==
    IF cs = {} THEN <<>>
    ELSE LET c == CHOOSE x \in cs : \A y \in cs : x.ts <= y.ts
         IN  <<c>> \o SortedByTs(cs \ {c})

CandlesOf(coll, ticker) == SortedByTs({c \in coll : c.ticker = ticker})

\* PriceSeriesLoop with a seeded fault: the division is not guarded, a
\* previous close of 0 raises
RECURSIVE PriceSeriesLoopUnguarded(_, _, _, _)
PriceSeriesLoopUnguarded(series, i, prev_close, result) ==
    IF i > Len(series) THEN result
    ELSE LET d == series[i][1]
             close == series[i][2]
             daily_ret ==
                 IF prev_close = NULL THEN NULL
                 ELSE IF prev_close # Zero
                      THEN RDiv(RSub(close, prev_close), prev_close)
                      ELSE <<"ZeroDivisionError">>
         IN  PriceSeriesLoopUnguarded(series, i + 1, close,
                 Put(result, d, [close_price |-> close, daily_return |-> daily_ret]))

\* the loop of lines 64-73 from position i on
RECURSIVE PriceSeriesLoop(_, _, _, _)
PriceSeriesLoop(series, i, prev_close, result) ==
    IF i > Len(series) THEN result
    ELSE LET d == series[i][1]
             close == series[i][2]
             daily_ret ==
                 IF prev_close = NULL THEN NULL
                 ELSE IF prev_close # Zero
                      THEN RDiv(RSub(close, prev_close), prev_close)
                      ELSE NULL
         IN  PriceSeriesLoop(series, i + 1, close,
                 Put(result, d, [close_price |-> close, daily_return |-> daily_ret]))

\* date -> {close_price, daily_return}; the empty dict when the ticker has no candle
build_price_series(prices_coll, ticker) ==
    LET rows == CandlesOf(prices_coll, ticker)
        series == [i \in DOMAIN rows |-> <<DateOf(rows[i].ts), Float(rows[i].close)>>]
    IN  IF rows = <<>> THEN <<>> ELSE PriceSeriesLoop(series, 1, NULL, <<>>)

-----------------------------------------------------------------------------
(* daily_aggregator.py: aggregate_sentiment_for_day *)

\* QualifyingNews with a seeded fault: "$lte" day_end, a closed interval
QualifyingNewsClosed(news_coll, ticker, d) ==
    LET day_start == start_of_day(d)
        day_end == day_start + SlotsPerDay
        Match(doc) == /\ doc.ticker = ticker
                      /\ doc.published_at >= day_start
                      /\ doc.published_at <= day_end
                      /\ doc.sentiment_score # NULL
    IN  SelectSeq(news_coll, Match)

\* news_coll.find({ticker, published_at in [day_start, day_end), sentiment_score != None})
QualifyingNews(news_coll, ticker, d) ==
    LET day_start == start_of_day(d)
        day_end == day_start + SlotsPerDay
        Match(doc) == /\ doc.ticker = ticker
                      /\ doc.published_at >= day_start
                      /\ doc.published_at < day_end
                      /\ doc.sentiment_score # NULL
    IN  SelectSeq(news_coll, Match)

\* number of occurrences of x in s
Count(s, x) == Cardinality({i \in DOMAIN s : s[i] = x})

\* MostCommon with a seeded fault: of the labels of highest count the one
\* inserted last is returned
MostCommonLast(labels) ==
    LET last == CHOOSE i \in DOMAIN labels :
                    /\ \A j \in DOMAIN labels : Count(labels, labels[j]) <= Count(labels, labels[i])
                    /\ \A j \in (i + 1)..Len(labels) : labels[j] # labels[i]
                    /\ \A j \in DOMAIN labels :
                          Count(labels, labels[j]) = Count(labels, labels[i]) =>
                              \A k \in (i + 1)..Len(labels) : labels[k] # labels[j]
    IN  labels[last]

\* Counter(labels).most_common(1)[0][0]: the keys of a Counter are kept in
\* order of first insertion and the first key of highest count is returned
MostCommon(labels) ==
    LET first == CHOOSE i \in DOMAIN labels :
                    /\ \A j \in DOMAIN labels : Count(labels, labels[j]) <= Count(labels, labels[i])
                    /\ \A j \in 1..(i - 1) : Count(labels, labels[j]) < Count(labels, labels[i])
    IN  labels[first]

\* (avg_sentiment_score, dominant_label, article_count)
aggregate_sentiment_for_day(news_coll, ticker, d) ==
    LET docs == QualifyingNews(news_coll, ticker, d)
        scores == [i \in DOMAIN docs |-> docs[i].sentiment_score]
        IsLabelled(doc) == doc.sentiment_label # NULL
        labelled == SelectSeq(docs, IsLabelled)
        labels == [i \in DOMAIN labelled |-> labelled[i].sentiment_label[1]]
        avg_score == IF scores # <<>> THEN RDiv(RSum(scores), Float(Len(scores))) ELSE NULL
        dominant == IF labels # <<>> THEN <<MostCommon(labels)>> ELSE NULL
    IN  IF docs = <<>> THEN <<NULL, NULL, 0>> ELSE <<avg_score, dominant, Len(docs)>>

-----------------------------------------------------------------------------
(* daily_aggregator.py: get_collections, upsert_daily_metric *)

Stamp(t) == <<t>>                 \* a datetime read from the clock

\* the key of a daily_ticker_metrics document under index (ticker, date)
KeyOf(doc) == <<doc.ticker, doc.date>>

HasDuplicateKey(coll) ==
    \E i, j \in DOMAIN coll : i # j /\ KeyOf(coll[i]) = KeyOf(coll[j])

\* _id of the first document matching {"ticker": ticker, "date": date_dt}, or 0
FindOne(coll, ticker, date_dt) ==
    IF \E i \in DOMAIN coll : KeyOf(coll[i]) = <<ticker, date_dt>>
    THEN CHOOSE i \in DOMAIN coll :
            /\ KeyOf(coll[i]) = <<ticker, date_dt>>
            /\ \A j \in 1..(i - 1) : KeyOf(coll[j]) # <<ticker, date_dt>>
    ELSE 0

\* daily_coll.update_one({ticker, date}, {"$set": {...}}, upsert=True):
\* the matched document keeps its other fields; an inserted one has only the
\* filter's and the $set's fields
UpsertSet(coll, ticker, date_dt, close_price, daily_return, avg_sentiment, dominant_label, article_count, now) ==
    LET id == FindOne(coll, ticker, date_dt)
        fresh == [ticker |-> ticker, date |-> date_dt,
                  close_price |-> close_price, daily_return |-> daily_return,
                  avg_sentiment_score |-> avg_sentiment,
                  dominant_sentiment_label |-> dominant_label,
                  article_count |-> article_count, updated_at |-> now,
                  has_corr |-> FALSE, rolling_corr_7d |-> NULL,
                  corr_updated_at |-> NULL]
    IN  IF id = 0 THEN Append(coll, fresh)
        ELSE [coll EXCEPT ![id] =
                [@ EXCEPT !.close_price = close_price,
                          !.daily_return = daily_return,
                          !.avg_sentiment_score = avg_sentiment,
                          !.dominant_sentiment_label = dominant_label,
                          !.article_count = article_count,
                          !.updated_at = now]]

\* The $set document is built before update_one is called; building it
\* evaluates datetime.now(UTC), and UTC is looked up in the module namespace.
upsert_daily_metric(daily_coll, ticker, d, close_price, daily_return, avg_sentiment, dominant_label, article_count) ==
    LET date_dt == start_of_day(d)
    IN  IF "UTC" \notin AggregatorNames
        THEN [raised |-> <<"NameError">>, coll |-> daily_coll]
        ELSE [raised |-> NULL,
              coll |-> UpsertSet(daily_coll, ticker, date_dt, close_price,
                                 daily_return, avg_sentiment, dominant_label,
                                 article_count, Stamp(clock))]

-----------------------------------------------------------------------------
(* daily_aggregator.py: run_daily_aggregation *)

\* sorted(price_series.keys())
RECURSIVE SortedInts(_)
SortedInts(S) ==
    IF S = {} THEN <<>>
    ELSE LET m == CHOOSE x \in S : \A y \in S : x <= y
         IN  <<m>> \o SortedInts(S \ {m})

\* what one pass of the loops returns: the exception raised (or NULL), the
\* collection as left, the upsert_daily_metric calls made, the tickers whose
\* loop body ran to its end (or to continue), and each ticker's price_series
LoopEnd(coll) ==
    [raised |-> NULL, coll |-> coll, calls |-> <<>>, processed |-> <<>>, series |-> <<>>]

\* lines 168-185 for date d: the arguments of the call and what it returns
UpsertCall(coll, ticker, d, price_info, sent) ==
    [call |-> [ticker |-> ticker, d |-> d,
               close_price |-> price_info.close_price,
               daily_return |-> price_info.daily_return,
               avg_sentiment |-> sent[1], dominant_label |-> sent[2],
               article_count |-> sent[3]],
     up |-> upsert_daily_metric(coll, ticker, d, price_info.close_price,
                                price_info.daily_return, sent[1], sent[2], sent[3])]

\* the inner loop (lines 164-185) over the dates ds from position i on
RECURSIVE DateLoop(_, _, _, _, _, _, _)

\* the rest of the inner loop after the call made for ds[i]: an exception
\* leaves the loop
AfterUpsert(done, news_coll, ticker, price_series, ds, i, start_date) ==
    IF done.up.raised # NULL
    THEN [LoopEnd(done.up.coll) EXCEPT !.raised = done.up.raised, !.calls = <<done.call>>]
    ELSE [DateLoop(news_coll, done.up.coll, ticker, price_series, ds, i + 1, start_date)
            EXCEPT !.calls = <<done.call>> \o @]

DateLoop(news_coll, coll, ticker, price_series, ds, i, start_date) ==
    IF i > Len(ds) THEN LoopEnd(coll)
    ELSE IF ds[i] < start_date
    THEN DateLoop(news_coll, coll, ticker, price_series, ds, i + 1, start_date)
    ELSE AfterUpsert(UpsertCall(coll, ticker, ds[i], price_series[ds[i]],
                                aggregate_sentiment_for_day(news_coll, ticker, ds[i])),
                     news_coll, ticker, price_series, ds, i, start_date)

\* the loop over TICKERS (lines 156-187) from position i on.  No statement of
\* the loop catches an exception: one raised for a ticker ends the run
RECURSIVE TickerLoop(_, _, _, _, _)

\* the rest of the outer loop after the inner loop of TICKERS[i] returned body
AfterTicker(body, price_series, prices_coll, news_coll, i, start_date) ==
    IF body.raised # NULL
    THEN [body EXCEPT !.series = <<<<TICKERS[i], price_series>>>>]
    ELSE [TickerLoop(prices_coll, news_coll, body.coll, i + 1, start_date)
            EXCEPT !.processed = <<TICKERS[i]>> \o @,
                   !.calls = body.calls \o @,
                   !.series = <<<<TICKERS[i], price_series>>>> \o @]

\* lines 158-185 for TICKERS[i], whose price series is price_series (an empty
\* one is skipped: DateLoop over no date)
TickerBody(price_series, prices_coll, news_coll, coll, i, start_date) ==
    AfterTicker(DateLoop(news_coll, coll, TICKERS[i], price_series,
                         SortedInts(DOMAIN price_series), 1, start_date),
                price_series, prices_coll, news_coll, i, start_date)

TickerLoop(prices_coll, news_coll, coll, i, start_date) ==
    IF i > Len(TICKERS) THEN LoopEnd(coll)
    ELSE TickerBody(build_price_series(prices_coll, TICKERS[i]),
                    prices_coll, news_coll, coll, i, start_date)

AggIdle == [status |-> "idle", raised |-> NULL, days_back |-> 0, processed |-> <<>>,
            calls |-> <<>>, series |-> <<>>]

\* a run may start: logged runs are bounded by the log, others by the clock
CanRun(logged) == IF logged THEN Len(runs) < MaxRuns ELSE clock < MaxClock

\* the log after a run of the given kind that left the table as coll
Logged(logged, kind, arg, coll) ==
    IF logged
    THEN /\ runs' = Append(runs, [kind |-> kind, arg |-> arg])
         /\ hist' = Append(hist, coll)
    ELSE UNCHANGED <<runs, hist>>

\* the state run_daily_aggregation(days_back) leaves when its loop returned out
AggregationDone(out, days_back, logged) ==
    /\ uniq_index' = TRUE
    /\ daily' = out.coll
    /\ agg' = [status |-> IF out.raised = NULL THEN "done" ELSE "raised",
               raised |-> out.raised, days_back |-> days_back,
               processed |-> out.processed, calls |-> out.calls,
               series |-> out.series]
    /\ Logged(logged, "agg", days_back, out.coll)

\* get_collections() fails building the unique index over a duplicate key
AggregationRefused(days_back, logged) ==
    /\ agg' = [AggIdle EXCEPT !.status = "raised",
                              !.raised = <<"DuplicateKeyError">>,
                              !.days_back = days_back]
    /\ Logged(logged, "agg", days_back, daily)
    /\ UNCHANGED <<daily, uniq_index>>

\* run_daily_aggregation(days_back): get_collections() creates the unique
\* index, today is read, then the loop over TICKERS runs until it ends or raises
RunDailyAggregation(days_back, logged) ==
    /\ CanRun(logged)
    /\ clock' = clock + 1
    /\ IF HasDuplicateKey(daily)
       THEN AggregationRefused(days_back, logged)
       ELSE AggregationDone(TickerLoop(prices, news, daily, 1, Today - days_back),
                            days_back, logged)
    /\ UNCHANGED <<prices, news, corr_run, response, call, procs, workers, rescored>>

-----------------------------------------------------------------------------
(* daily_correlation.py: pearson_corr *)

\* num / (den_x * den_y) ** 0.5 for den_x, den_y > 0, as <<sign, p, q>>
CorrValue(num, den_x, den_y) ==
    LET sq == RDiv(RMul(num, num), RMul(den_x, den_y))
    IN  <<Sign(num[1]), sq[1], sq[2]>>

\* pearson_corr with a seeded fault: the guard of line 52 joins its two tests
\* with "and", so one series without variance reaches the division
pearson_corr_and_guard(pairs) ==
    LET n == Len(pairs)
        xs == [i \in DOMAIN pairs |-> pairs[i][1]]
        ys == [i \in DOMAIN pairs |-> pairs[i][2]]
        mean_x == RDiv(RSum(xs), Float(n))
        mean_y == RDiv(RSum(ys), Float(n))
        num == RSum([i \in DOMAIN pairs |->
                        RMul(RSub(xs[i], mean_x), RSub(ys[i], mean_y))])
        den_x == RSum([i \in DOMAIN pairs |->
                        RMul(RSub(xs[i], mean_x), RSub(xs[i], mean_x))])
        den_y == RSum([i \in DOMAIN pairs |->
                        RMul(RSub(ys[i], mean_y), RSub(ys[i], mean_y))])
    IN  IF n < 2 THEN NULL
        ELSE IF den_x = Zero /\ den_y = Zero THEN NULL
        ELSE IF den_x = Zero \/ den_y = Zero THEN <<"ZeroDivisionError">>
        ELSE CorrValue(num, den_x, den_y)

pearson_corr(pairs) ==
    LET n == Len(pairs)
        xs == [i \in DOMAIN pairs |-> pairs[i][1]]
        ys == [i \in DOMAIN pairs |-> pairs[i][2]]
        mean_x == RDiv(RSum(xs), Float(n))
        mean_y == RDiv(RSum(ys), Float(n))
        num == RSum([i \in DOMAIN pairs |->
                        RMul(RSub(xs[i], mean_x), RSub(ys[i], mean_y))])
        den_x == RSum([i \in DOMAIN pairs |->
                        RMul(RSub(xs[i], mean_x), RSub(xs[i], mean_x))])
        den_y == RSum([i \in DOMAIN pairs |->
                        RMul(RSub(ys[i], mean_y), RSub(ys[i], mean_y))])
    IN  IF n < 2 THEN NULL
        ELSE IF den_x = Zero \/ den_y = Zero THEN NULL
        ELSE CorrValue(num, den_x, den_y)

-----------------------------------------------------------------------------
(* daily_correlation.py: update_rolling_corr_for_ticker, run_rolling_corr *)

\* coll.find({"ticker": ticker}).sort("date", ASCENDING): the _ids in date
\* order (equal dates, which the unique index excludes, in _id order)
RECURSIVE SortedByDate(_, _)
SortedByDate(coll, ids) ==
    IF ids = {} THEN <<>>
    ELSE LET m == CHOOSE x \in ids : \A y \in ids :
                     \/ coll[x].date < coll[y].date
                     \/ (coll[x].date = coll[y].date /\ x <= y)
         IN  <<m>> \o SortedByDate(coll, ids \ {m})

\* DocsOf with a seeded fault: find({}) instead of find({"ticker": ticker})
DocsOfAll(coll, ticker) == SortedByDate(coll, DOMAIN coll)

DocsOf(coll, ticker) ==
    SortedByDate(coll, {i \in DOMAIN coll : coll[i].ticker = ticker})

\* PushHistory with a seeded fault: a row with a null field is not appended
PushHistoryValidOnly(history, h, window) ==
    LET appended == IF h.ret = NULL \/ h.sent = NULL THEN history ELSE Append(history, h)
    IN  IF Len(appended) > window THEN Tail(appended) ELSE appended

\* history.append(...); if len(history) > window: history.pop(0)
PushHistory(history, h, window) ==
    LET appended == Append(history, h)
    IN  IF Len(appended) > window THEN Tail(appended) ELSE appended

\* the valid (ret, sent) pairs of the current window
ValidPairs(history) ==
    LET IsValid(h) == h.ret # NULL /\ h.sent # NULL
        kept == SelectSeq(history, IsValid)
    IN  [i \in DOMAIN kept |-> <<kept[i].ret, kept[i].sent>>]

\* HistoryEntry with a seeded fault: a row that a pass has written already is
\* taken for processed and enters the window without its values
HistoryEntrySkippingDone(doc) ==
    [date |-> doc.date,
     ret |-> IF doc.has_corr THEN NULL ELSE doc.daily_return,
     sent |-> IF doc.has_corr THEN NULL ELSE doc.avg_sentiment_score]

\* the entry of history made for a document
HistoryEntry(doc) ==
    [date |-> doc.date, ret |-> doc.daily_return, sent |-> doc.avg_sentiment_score]

\* the document with the $set of lines 94-102 applied
WithCorr(doc, corr) ==
    [doc EXCEPT !.has_corr = TRUE, !.rolling_corr_7d = corr,
                !.corr_updated_at = Stamp(clock)]

\* CorrLoop with a seeded fault: insert_one of a copy instead of update_one
RECURSIVE CorrLoopInserting(_, _, _, _, _, _)
CorrLoopInserting(coll, docs, ids, i, history, window) ==
    IF i > Len(ids) THEN coll
    ELSE LET history2 == PushHistory(history, HistoryEntry(docs[ids[i]]), window)
             pairs == ValidPairs(history2)
             corr == IF pairs # <<>> THEN pearson_corr(pairs) ELSE NULL
         IN  CorrLoopInserting(Append(coll, WithCorr(docs[ids[i]], corr)),
                               docs, ids, i + 1, history2, window)

\* CorrLoop with a seeded fault: a row that holds a coefficient already is
\* taken for stale and has it cleared
RECURSIVE CorrLoopClearing(_, _, _, _, _, _)
CorrLoopClearing(coll, docs, ids, i, history, window) ==
    IF i > Len(ids) THEN coll
    ELSE LET doc == docs[ids[i]]
             history2 == PushHistory(history, HistoryEntry(doc), window)
             pairs == ValidPairs(history2)
             corr == IF doc.rolling_corr_7d # NULL THEN NULL
                     ELSE IF pairs # <<>> THEN pearson_corr(pairs) ELSE NULL
         IN  CorrLoopClearing([coll EXCEPT ![ids[i]] = WithCorr(@, corr)],
                              docs, ids, i + 1, history2, window)

\* CorrLoop with a seeded fault: the window of row i is the rows i..i+window-1
RECURSIVE CorrLoopForward(_, _, _, _, _, _)
CorrLoopForward(coll, docs, ids, i, history, window) ==
    IF i > Len(ids) THEN coll
    ELSE LET last == IF i + window - 1 > Len(ids) THEN Len(ids) ELSE i + window - 1
             ahead == [k \in 1..(last - i + 1) |-> HistoryEntry(docs[ids[i + k - 1]])]
             pairs == ValidPairs(ahead)
             corr == IF pairs # <<>> THEN pearson_corr(pairs) ELSE NULL
         IN  CorrLoopForward([coll EXCEPT ![ids[i]] = WithCorr(@, corr)],
                             docs, ids, i + 1, history, window)

\* the loop of lines 76-103 over the documents read (snapshot docs of the
\* collection, in order ids) from position i on
RECURSIVE CorrLoop(_, _, _, _, _, _)
CorrLoop(coll, docs, ids, i, history, window) ==
    IF i > Len(ids) THEN coll
    ELSE LET history2 == PushHistory(history, HistoryEntry(docs[ids[i]]), window)
             pairs == ValidPairs(history2)
             corr == IF pairs # <<>> THEN pearson_corr(pairs) ELSE NULL
         IN  CorrLoop([coll EXCEPT ![ids[i]] = WithCorr(@, corr)],
                      docs, ids, i + 1, history2, window)

update_rolling_corr_for_ticker(coll, ticker, window) ==
    LET ids == DocsOf(coll, ticker)
    IN  IF ids = <<>> THEN coll ELSE CorrLoop(coll, coll, ids, 1, <<>>, window)

\* CorrTickerLoop with a seeded fault: the loop returns after its first ticker
RECURSIVE CorrTickerLoopFirstOnly(_, _, _)
CorrTickerLoopFirstOnly(coll, i, window) ==
    IF i > 1 THEN coll
    ELSE CorrTickerLoopFirstOnly(update_rolling_corr_for_ticker(coll, TICKERS[i], window),
                                 i + 1, window)

\* the loop over TICKERS of run_rolling_corr from position i on
RECURSIVE CorrTickerLoop(_, _, _)
CorrTickerLoop(coll, i, window) ==
    IF i > Len(TICKERS) THEN coll
    ELSE CorrTickerLoop(update_rolling_corr_for_ticker(coll, TICKERS[i], window),
                        i + 1, window)

CorrIdle == [status |-> "idle", window |-> 0, updated |-> 0]

\* run_rolling_corr(window)
RunRollingCorr(window, logged) ==
    /\ CanRun(logged)
    /\ clock' = clock + 1
    /\ daily' = CorrTickerLoop(daily, 1, window)
    /\ corr_run' = [status |-> "done", window |-> window,
                    updated |-> Cardinality({i \in DOMAIN daily : daily[i].ticker \in TickerSet})]
    /\ Logged(logged, "corr", window, daily')
    /\ UNCHANGED <<prices, news, uniq_index, agg, response, call, procs, workers, rescored>>

-----------------------------------------------------------------------------
(* timeseries_builder.py *)

\* find_one({"ticker": ticker}, sort=[("date", -1)]) and d.date(), or NULL
get_latest_date_for_ticker(coll, ticker) ==
    LET ids == DocsOf(coll, ticker)
    IN  IF ids = <<>> THEN NULL ELSE <<DateOf(coll[ids[Len(ids)]].date)>>

\* one element of points; d.strftime("%Y-%m-%d") is the calendar day of d
PointOf(doc) ==
    [date |-> DateOf(doc.date),
     close_price |-> doc.close_price,
     daily_return |-> doc.daily_return,
     avg_sentiment |-> doc.avg_sentiment_score,
     dominant_sentiment |-> doc.dominant_sentiment_label,
     article_count |-> doc.article_count,
     rolling_corr_7d |-> doc.rolling_corr_7d]

\* build_ticker_timeseries with a seeded fault: the window starts days_back
\* days before the latest date, one day too early
build_ticker_timeseries_early(coll, ticker, days_back) ==
    LET latest == get_latest_date_for_ticker(coll, ticker)
        latest_date == latest[1]
        start_date == latest_date - days_back
        start_dt == start_of_day(start_date)
        ids == SortedByDate(coll, {i \in DOMAIN coll :
                    coll[i].ticker = ticker /\ coll[i].date >= start_dt})
    IN  IF latest = NULL
        THEN [ticker |-> ticker, points |-> <<>>]
        ELSE [ticker |-> ticker, from_date |-> <<start_date>>, to_date |-> <<latest_date>>,
              points |-> [i \in DOMAIN ids |-> PointOf(coll[ids[i]])]]

build_ticker_timeseries(coll, ticker, days_back) ==
    LET latest == get_latest_date_for_ticker(coll, ticker)
        latest_date == latest[1]
        start_date == latest_date - (days_back - 1)
        start_dt == start_of_day(start_date)
        ids == SortedByDate(coll, {i \in DOMAIN coll :
                    coll[i].ticker = ticker /\ coll[i].date >= start_dt})
    IN  IF latest = NULL
        THEN [ticker |-> ticker, points |-> <<>>]
        ELSE [ticker |-> ticker, from_date |-> <<start_date>>, to_date |-> <<latest_date>>,
              points |-> [i \in DOMAIN ids |-> PointOf(coll[ids[i]])]]

-----------------------------------------------------------------------------
(* api/main.py: GET /ticker/{ticker}/timeseries *)

RequestTickers == {"AAPL", "aapl", "MSFT", "ZZZZ"}    \* path parameters tried
DaysQuery == {0, 1, 2, 3}                             \* query parameters tried

DaysMin == 1          \* Query(ge=1)
DaysMax == 90         \* Query(le=90)

\* ticker.upper() on the path parameters tried
Upper(t) == IF t = "aapl" THEN "AAPL" ELSE t

NoResponse == [status |-> 0, asked |-> "", days |-> 0, detail |-> "", data |-> NULL]

\* the status and body the endpoint answers with
get_ticker_timeseries(coll, ticker, days) ==
    LET up == Upper(ticker)
        data == build_ticker_timeseries(coll, up, days)
    IN  IF days < DaysMin \/ days > DaysMax
        THEN [status |-> 422, detail |-> "validation", data |-> NULL]
        ELSE IF up \notin TickerSet
        THEN [status |-> 404, detail |-> "not supported", data |-> NULL]
        ELSE IF data.points = <<>>
        THEN [status |-> 404, detail |-> "no daily metrics", data |-> NULL]
        ELSE [status |-> 200, detail |-> "", data |-> <<data>>]

GetTickerTimeseries(ticker, days) ==
    LET r == get_ticker_timeseries(daily, ticker, days)
    IN  /\ response' = [status |-> r.status, asked |-> ticker, days |-> days,
                        detail |-> r.detail, data |-> r.data]
        /\ UNCHANGED <<prices, news, daily, uniq_index, clock, agg, corr_run, runs, hist,
                       call, procs, workers, rescored>>

-----------------------------------------------------------------------------
(* Contents of the collections when the pipeline starts *)

\* the subsets of U with at most n elements
RECURSIVE SetsUpTo(_, _)
SetsUpTo(U, n) ==
    IF n = 0 THEN {{}}
    ELSE LET smaller == SetsUpTo(U, n - 1)
         IN  smaller \cup {S \cup {x} : S \in smaller, x \in U}

\* the sequences over U of length at most n
RECURSIVE SeqsUpTo(_, _)
SeqsUpTo(U, n) ==
    IF n = 0 THEN {<<>>}
    ELSE LET shorter == SeqsUpTo(U, n - 1)
         IN  shorter \cup {Append(q, x) : q \in shorter, x \in U}

Instants == {start_of_day(d) + k : d \in Days, k \in 0..(SlotsPerDay - 1)}

\* price_snapshots documents (price_fetcher.py: fetch_daily_prices_yf)
Candles == [ticker : DataTickers, ts : Instants, close : Closes]

\* index uniq_ticker_ts of price_snapshots
UniqueTs(S) == \A a, b \in S : (a.ticker = b.ticker /\ a.ts = b.ts) => a = b

PriceStores == {S \in SetsUpTo(Candles, MaxCandles) : UniqueTs(S)}

\* news_events documents: as fetch_news.py inserts them (unscored) or as
\* sentiment_worker.py leaves them (label and score set)
NewsDocs ==
    {[ticker |-> "AAPL", published_at |-> t, sentiment_score |-> sc[1],
      sentiment_label |-> sc[2]] :
        t \in Instants,
        sc \in {<<NULL, NULL>>, <<Rat(1, 2), <<"bullish">>>>}}

NewsStores == SeqsUpTo(NewsDocs, MaxNews)

Returns == {NULL, Rat(-1, 2), Rat(1, 1)}     \* stored daily_return values
Sents == {NULL, Rat(-1, 2), Rat(1, 2)}       \* stored avg_sentiment_score values

\* a daily_ticker_metrics document as upsert_daily_metric leaves one that
\* the correlation pass has not visited yet
StoredRow(ticker, d, ret, sent) ==
    [ticker |-> ticker, date |-> start_of_day(d),
     close_price |-> Float(1), daily_return |-> ret,
     avg_sentiment_score |-> sent,
     dominant_sentiment_label |-> IF sent = NULL THEN NULL ELSE <<"bullish">>,
     article_count |-> IF sent = NULL THEN 0 ELSE 1,
     updated_at |-> Stamp(0),
     has_corr |-> FALSE, rolling_corr_7d |-> NULL, corr_updated_at |-> NULL]

Reverse(q) == [i \in DOMAIN q |-> q[Len(q) + 1 - i]]

\* a stored table: rows of AAPL on the days D with the values vals, inserted
\* in ascending date order (shape 1), in descending date order (shape 2), or
\* in ascending order and followed by one row of MSFT (shape 3)
StoredTable(D, vals, shape) ==
    LET ds == SortedInts(D)
        t == [i \in DOMAIN ds |-> StoredRow("AAPL", ds[i], vals[i][1], vals[i][2])]
    IN  IF shape = 1 THEN t
        ELSE IF shape = 2 THEN Reverse(t)
        ELSE Append(t, StoredRow("MSFT", 1, Rat(1, 1), Rat(1, 2)))

Shapes == {1, 2, 3}

\* daily holds up to MaxRows rows of AAPL with (return, sentiment) in Values
DrawStoredTable(Values) ==
    \E D \in SUBSET StoredDays :
        /\ Cardinality(D) <= MaxRows
        /\ \E vals \in [1..Cardinality(D) -> Values], shape \in Shapes :
              daily = StoredTable(D, vals, shape)

Windows == 1..MaxWindow           \* window passed to run_rolling_corr

DefaultWindow == 7                \* run_rolling_corr(window: int = 7)

NoCall == [fn |-> "", args |-> <<>>, out |-> <<>>]

Procs == {1, 2}                   \* concurrent aggregation processes

\* a process that has not called run_daily_aggregation yet: its position, its
\* argument and its local variables
ProcIdle == [pc |-> "idle", days_back |-> 0, i |-> 0, price_series |-> <<>>, ds |-> <<>>,
             k |-> 0, raised |-> NULL]

Workers == {1, 2}                 \* sentiment worker processes

\* a process that has not called run_worker yet: its position, its arguments,
\* the loop counter i, the batch read and the position in it, updated_count,
\* and how the loop was left; unscored is the number of events with a null
\* score when the run started
WorkerIdle ==
    [pc |-> "idle", max_loops |-> 0, batch_size |-> 0, i |-> 0, docs |-> <<>>,
     pos |-> 0, updated_count |-> 0, stopped |-> "", unscored |-> 0]

InitControl ==
    /\ uniq_index = FALSE
    /\ clock = 1
    /\ agg = AggIdle
    /\ corr_run = CorrIdle
    /\ response = NoResponse
    /\ runs = <<>>
    /\ hist = <<>>
    /\ call = NoCall
    /\ procs = [p \in Procs |-> ProcIdle]
    /\ workers = [w \in Workers |-> WorkerIdle]
    /\ rescored = {}

\* a fresh deployment: the collectors have run, daily_ticker_metrics is empty
Init ==
    /\ prices \in PriceStores
    /\ news \in NewsStores
    /\ daily = <<>>
    /\ InitControl

AggregationRun == \E days_back \in DaysBackSet : RunDailyAggregation(days_back, FALSE)

CorrelationRun == RunRollingCorr(DefaultWindow, FALSE)

Next == AggregationRun \/ CorrelationRun

Spec == Init /\ [][Next]_vars

\* (daily_return, avg_sentiment_score) of the stored rows: a null in either
\* field, equal returns under different sentiments, and pairs that vary in both
StoredValues ==
    {<<NULL, Rat(1, 2)>>, <<Rat(-1, 2), NULL>>,
     <<Rat(1, 1), Rat(1, 2)>>, <<Rat(1, 1), Rat(-1, 2)>>, <<Rat(-1, 2), Rat(-1, 2)>>}

\* a deployment whose daily_ticker_metrics already holds rows
InitStore ==
    /\ prices = {}
    /\ news = <<>>
    /\ DrawStoredTable(StoredValues)
    /\ InitControl

\* one pass over the stored rows, with any window
CorrelationPass ==
    /\ corr_run.status = "idle"
    /\ \E window \in Windows : RunRollingCorr(window, FALSE)

NextCorr == CorrelationPass

SpecCorr == InitStore /\ [][NextCorr]_vars

Request == \E ticker \in RequestTickers, days \in DaysQuery : GetTickerTimeseries(ticker, days)

NextApi == Request

\* a deployment whose rows differ in their days, as the reader sees them
InitApi ==
    /\ prices = {}
    /\ news = <<>>
    /\ DrawStoredTable({<<NULL, NULL>>, <<Rat(1, 1), Rat(1, 2)>>})
    /\ InitControl

SpecApi == InitApi /\ [][NextApi]_vars

\* the pipeline run repeatedly against stored rows, every run logged
InitRuns ==
    /\ prices \in {S \in PriceStores : Cardinality(S) <= 1 /\ \A c \in S : c.close = 1}
    /\ news = <<>>
    /\ DrawStoredTable({<<NULL, NULL>>, <<Rat(1, 1), Rat(1, 2)>>, <<Rat(-1, 2), Rat(-1, 2)>>})
    /\ Len(daily) <= 2
    /\ InitControl

LoggedAggregationRun == \E days_back \in DaysBackSet : RunDailyAggregation(days_back, TRUE)

LoggedCorrelationRun == RunRollingCorr(DefaultWindow, TRUE)

NextRuns == LoggedAggregationRun \/ LoggedCorrelationRun

SpecRuns == InitRuns /\ [][NextRuns]_vars

-----------------------------------------------------------------------------
(* Properties of the aggregation run *)

HasRow(coll, ticker, d) ==
    \E i \in DOMAIN coll : KeyOf(coll[i]) = <<ticker, start_of_day(d)>>

HasCandle(coll, ticker, d) ==
    \E c \in coll : c.ticker = ticker /\ DateOf(c.ts) = d

AggEnded == agg.status # "idle"

\* the first day of the lookback window of the last run
StartDate == Today - agg.days_back

\* C1: once run_daily_aggregation has run, a row (T, D) exists iff price_snapshots
\* held a candle of T on day D; stated here for the days D of the run's lookback
\* window only, the days the run visits
C1_RowIffCandle ==
    AggEnded =>
        \A t \in TickerSet, d \in Days :
            d >= StartDate => (HasRow(daily, t, d) <=> HasCandle(prices, t, d))

\* C6: an exception raised while one ticker is handled does not end the run:
\* the tickers after it in TICKERS are processed too
C6_FailureIsolated ==
    agg.status = "raised" =>
        \A i \in DOMAIN TICKERS :
            i > Len(agg.processed) + 1 =>
                \E j \in DOMAIN agg.processed : agg.processed[j] = TICKERS[i]

NoScoredNews(coll, ticker, d) == QualifyingNews(coll, ticker, d) = <<>>

\* C7: after an aggregation run, a day D of the lookback window on which T has
\* a candle and no scored news has a row (T, D) with avg_sentiment_score = null,
\* dominant_sentiment_label = null, article_count = 0
C7_NoNewsRow ==
    AggEnded =>
        \A t \in TickerSet, d \in Days :
            (d >= StartDate /\ HasCandle(prices, t, d) /\ NoScoredNews(news, t, d)) =>
                \E i \in DOMAIN daily :
                    /\ KeyOf(daily[i]) = <<t, start_of_day(d)>>
                    /\ daily[i].avg_sentiment_score = NULL
                    /\ daily[i].dominant_sentiment_label = NULL
                    /\ daily[i].article_count = 0

\* the claimed return of the k-th date of a series: null at the first date,
\* else (c_k - c_{k-1}) / c_{k-1} over the closes of consecutive dates
ClaimedReturn(price_series, ds, k) ==
    IF k = 1 THEN NULL
    ELSE RDiv(RSub(price_series[ds[k]].close_price, price_series[ds[k - 1]].close_price),
              price_series[ds[k - 1]].close_price)

SeriesAsClaimed(price_series) ==
    LET ds == SortedInts(DOMAIN price_series)
    IN  \A k \in DOMAIN ds :
            (k > 1 => price_series[ds[k - 1]].close_price # Zero) =>
                price_series[ds[k]].daily_return = ClaimedReturn(price_series, ds, k)

\* C8: in every price series an aggregation run builds, daily_return is null
\* at the first date and (c_i - c_{i-1}) / c_{i-1} at every later date, c_{i-1}
\* the close of the previous date of the series (where that close is not 0)
C8_DailyReturn ==
    \A k \in DOMAIN agg.series : SeriesAsClaimed(agg.series[k][2])

-----------------------------------------------------------------------------
(* Properties of the serving endpoint *)

Answered == response.status # 0 /\ response.days >= DaysMin /\ response.days <= DaysMax

\* C5: a supported ticker without any row is answered with a non-error empty
\* result (points: []), which its status code tells apart from the client
\* error an unsupported ticker is answered with
C5_NoDataIsNotAnError ==
    (/\ Answered
     /\ Upper(response.asked) \in TickerSet
     /\ DocsOf(daily, Upper(response.asked)) = <<>>) =>
        /\ response.status = 200
        /\ response.data # NULL
        /\ response.data[1].points = <<>>

-----------------------------------------------------------------------------
(* Properties of the pipeline run repeatedly *)

\* C2: after any sequence of aggregation and correlation runs, daily_ticker_metrics
\* holds at most one row for each (ticker, date)
C2_OneRowPerKey == ~HasDuplicateKey(daily)

\* C2 case: an aggregation run called upsert_daily_metric for a key that has a
\* row already, and a correlation run rewrote the rows
C2_Witness ==
    /\ corr_run.status = "done"
    /\ corr_run.updated >= 2
    /\ \E k \in DOMAIN agg.calls : HasRow(daily, agg.calls[k].ticker, agg.calls[k].d)

\* runs i..i+3 are aggregation, correlation, aggregation, correlation with the
\* arguments of the first pair repeated by the second
IsRerun(i) ==
    /\ runs[i].kind = "agg" /\ runs[i + 1].kind = "corr"
    /\ runs[i + 2].kind = "agg" /\ runs[i + 3].kind = "corr"
    /\ runs[i + 2].arg = runs[i].arg
    /\ runs[i + 3].arg = runs[i + 1].arg

\* the rows without the two timestamps the passes write
Unstamped(coll) ==
    [i \in DOMAIN coll |-> [coll[i] EXCEPT !.updated_at = NULL, !.corr_updated_at = NULL]]

-----------------------------------------------------------------------------
(* Properties of the correlation pass *)

CorrDone == corr_run.status = "done"

\* the table with the return and the sentiment of row id replaced
Changed(coll, id, r, s) ==
    [coll EXCEPT ![id] = [@ EXCEPT !.daily_return = r, !.avg_sentiment_score = s]]

\* the coefficients of the rows ids[1..n] of coll
CorrsOf(coll, ids, n) == [i \in 1..n |-> coll[ids[i]].rolling_corr_7d]

\* no row before position j of ids, the rows of ticker t, changes its coefficient
\* when the pass is run again with the values of the row at position j replaced
UnmovedBefore(t, ids, j) ==
    \A r \in Returns, s \in Sents :
        CorrsOf(update_rolling_corr_for_ticker(Changed(daily, ids[j], r, s), t,
                                               corr_run.window), ids, j - 1)
            = CorrsOf(daily, ids, j - 1)

\* C4: the coefficient of the row at position i of a ticker's date-ascending
\* sequence does not change when daily_return or avg_sentiment_score of a row
\* at a later position is changed and the correlation pass is run again
C4_NoLookAhead ==
    CorrDone =>
        \A t \in DataTickers :
            \A j \in 2..Len(DocsOf(daily, t)) : UnmovedBefore(t, DocsOf(daily, t), j)

\* C4 case: a row holding a coefficient is followed by a later row
C4_Witness ==
    /\ CorrDone
    /\ \E j \in DOMAIN DocsOf(daily, "AAPL") :
          \E i \in 1..(j - 1) : daily[DocsOf(daily, "AAPL")[i]].rolling_corr_7d # NULL

IsValidRow(doc) == doc.daily_return # NULL /\ doc.avg_sentiment_score # NULL

PairOf(doc) == <<doc.daily_return, doc.avg_sentiment_score>>

\* the rows at the last W positions up to position i of ids
WindowRows(coll, ids, i, W) ==
    LET first == IF i - W + 1 > 1 THEN i - W + 1 ELSE 1
    IN  [k \in 1..(i - first + 1) |-> coll[ids[first + k - 1]]]

\* the valid pairs of those rows, in date order
WindowPairs(coll, ids, i, W) ==
    LET kept == SelectSeq(WindowRows(coll, ids, i, W), IsValidRow)
    IN  [k \in DOMAIN kept |-> PairOf(kept[k])]

\* the coefficient of pairs, none for no pair
CorrOver(pairs) == IF pairs = <<>> THEN NULL ELSE pearson_corr(pairs)

\* C9: the coefficient of the row at position i is the Pearson coefficient of
\* the rows at the last W positions up to i of the ticker's date-ascending
\* sequence that have daily_return and avg_sentiment_score both non-null; a
\* row with a null field is left out of the pairs and still takes a position
C9_WindowByPosition ==
    CorrDone =>
        \A t \in DataTickers :
            \A i \in DOMAIN DocsOf(daily, t) :
                daily[DocsOf(daily, t)[i]].rolling_corr_7d
                    = CorrOver(WindowPairs(daily, DocsOf(daily, t), i, corr_run.window))

\* C9 case: the window of a row leaves out a valid earlier row while it holds
\* a row with a null field, over days that are not consecutive
C9_Witness ==
    /\ CorrDone
    /\ LET ids == DocsOf(daily, "AAPL")
       IN  /\ Len(ids) > corr_run.window
           /\ IsValidRow(daily[ids[1]])
           /\ IsValidRow(daily[ids[Len(ids)]])
           /\ ~IsValidRow(daily[ids[Len(ids) - 1]])
           /\ DateOf(daily[ids[Len(ids)]].date) > DateOf(daily[ids[Len(ids) - 1]].date) + 1

\* the sum of squared deviations from the mean of the k-th components of pairs
SumSqDev(pairs, k) ==
    LET vs == [i \in DOMAIN pairs |-> pairs[i][k]]
        mean == RDiv(RSum(vs), Float(Len(vs)))
    IN  RSum([i \in DOMAIN vs |-> RMul(RSub(vs[i], mean), RSub(vs[i], mean))])

Degenerate(pairs) ==
    \/ Len(pairs) < 2
    \/ SumSqDev(pairs, 1) = Zero
    \/ SumSqDev(pairs, 2) = Zero

\* a Pearson coefficient: a sign and its square, a fraction in [0, 1]
IsCoefficient(c) ==
    /\ Len(c) = 3
    /\ c[1] \in {-1, 0, 1}
    /\ c[2] >= 0 /\ c[3] > 0 /\ c[2] <= c[3]

CorrFields(coll) ==
    [i \in DOMAIN coll |-> <<coll[i].ticker, coll[i].date, coll[i].daily_return,
                             coll[i].avg_sentiment_score, coll[i].rolling_corr_7d>>]

\* C17: a second correlation pass for a ticker over the rows the first pass
\* left, with the same window, writes on every row the coefficient the row
\* holds from the first pass, and leaves daily_return and avg_sentiment_score
C17_PassIdempotent ==
    CorrDone =>
        \A t \in DataTickers :
            CorrFields(update_rolling_corr_for_ticker(daily, t, corr_run.window))
                = CorrFields(daily)

\* C17 case: the ticker has more rows than the window, so the window slides,
\* and the pass left a coefficient on its last row and none on its first
C17_Witness ==
    /\ CorrDone
    /\ LET ids == DocsOf(daily, "AAPL")
       IN  /\ Len(ids) > corr_run.window
           /\ daily[ids[1]].rolling_corr_7d = NULL
           /\ daily[ids[Len(ids)]].rolling_corr_7d # NULL
           /\ daily[ids[Len(ids)]].has_corr

-----------------------------------------------------------------------------
(* Properties of the upsert on an existing row *)

\* the last logged run was an aggregation run, and a run was logged before it
LastRunWasAgg == Len(runs) >= 2 /\ runs[Len(runs)].kind = "agg"

\* the row of coll keyed (ticker, d)
RowOf(coll, ticker, d) == coll[FindOne(coll, ticker, start_of_day(d))]

\* the row new carries the metric values of the call c and the correlation
\* fields of the row old
Overwritten(old, new, c) ==
    /\ new.rolling_corr_7d = old.rolling_corr_7d
    /\ new.corr_updated_at = old.corr_updated_at
    /\ new.close_price = c.close_price
    /\ new.daily_return = c.daily_return
    /\ new.avg_sentiment_score = c.avg_sentiment
    /\ new.dominant_sentiment_label = c.dominant_label
    /\ new.article_count = c.article_count

\* C11: when upsert_daily_metric is called for a (ticker, date) that has a row,
\* the row keeps its rolling_corr_7d and corr_updated_at and has close_price,
\* daily_return, avg_sentiment_score, dominant_sentiment_label and article_count
\* replaced by the values of the call
C11_OverwriteKeepsCorr ==
    LastRunWasAgg =>
        \A k \in DOMAIN agg.calls :
            HasRow(hist[Len(runs) - 1], agg.calls[k].ticker, agg.calls[k].d) =>
                Overwritten(RowOf(hist[Len(runs) - 1], agg.calls[k].ticker, agg.calls[k].d),
                            RowOf(daily, agg.calls[k].ticker, agg.calls[k].d),
                            agg.calls[k])

-----------------------------------------------------------------------------
(* Properties of the timeseries reader *)

Served == response.status = 200

\* the calendar days of the rows of ticker in coll
RowDays(coll, ticker) == {DateOf(coll[i].date) : i \in {j \in DOMAIN coll : coll[j].ticker = ticker}}

LatestDay(coll, ticker) ==
    CHOOSE d \in RowDays(coll, ticker) : \A e \in RowDays(coll, ticker) : e <= d

\* the point carries the day and the field values of the row
PointIsRow(point, row) ==
    /\ point.date = DateOf(row.date)
    /\ point.close_price = row.close_price
    /\ point.daily_return = row.daily_return
    /\ point.avg_sentiment = row.avg_sentiment_score
    /\ point.dominant_sentiment = row.dominant_sentiment_label
    /\ point.article_count = row.article_count
    /\ point.rolling_corr_7d = row.rolling_corr_7d

\* data is the series of ticker from the day first on, as the claim describes it
SeriesFrom(data, coll, ticker, first) ==
    /\ data.to_date = <<LatestDay(coll, ticker)>>
    /\ data.from_date = <<first>>
    /\ Len(data.points) = Cardinality({d \in RowDays(coll, ticker) : d >= first})
    /\ \A k \in DOMAIN data.points :
          /\ data.points[k].date >= first
          /\ k > 1 => data.points[k - 1].date < data.points[k].date
          /\ PointIsRow(data.points[k], RowOf(coll, ticker, data.points[k].date))

\* C12: for a ticker with a row and days_back >= 1, build_ticker_timeseries
\* returns to_date = the latest row date of the ticker, from_date = that date
\* minus (days_back - 1) days, and as points exactly the rows of the ticker
\* with date >= from_date, in ascending date order, their values unmodified
C12_TrailingWindow ==
    Served =>
        SeriesFrom(response.data[1], daily, Upper(response.asked),
                   LatestDay(daily, Upper(response.asked)) - (response.days - 1))

\* C12 case: the window holds two rows or more, one of them with a null, leaves
\* out an older row, and ends on a day that is not today
C12_Witness ==
    /\ Served
    /\ Len(response.data[1].points) >= 2
    /\ Len(response.data[1].points) < Cardinality(RowDays(daily, Upper(response.asked)))
    /\ \E k \in DOMAIN response.data[1].points : response.data[1].points[k].daily_return = NULL
    /\ response.data[1].to_date # <<Today>>

-----------------------------------------------------------------------------
(* aggregate_sentiment_for_day applied to stored news events *)

MaxEvents == 4        \* documents in news_events when the function is applied

\* midnight of day 0, the last instant of day 0, midnight of day 1
SentInstants == {start_of_day(0), start_of_day(1) - 1, start_of_day(1)}

\* (sentiment_score, sentiment_label) as analyze_headline returns them
SentKinds == {<<Rat(1, 2), <<"bullish">>>>, <<Rat(-1, 2), <<"bearish">>>>}

\* an event of ticker published at t with the score and label of kind k
SentDoc(ticker, t, k) ==
    [ticker |-> ticker, published_at |-> t, sentiment_score |-> k[1], sentiment_label |-> k[2]]

\* scored events of AAPL at each instant, an unscored one and one scored
\* without a label at midnight of day 0, and a scored event of MSFT
SentDocs ==
    {SentDoc("AAPL", t, k) : t \in SentInstants, k \in SentKinds}
    \cup {SentDoc("AAPL", start_of_day(0), <<NULL, NULL>>),
          SentDoc("AAPL", start_of_day(0), <<Rat(1, 1), NULL>>),
          SentDoc("MSFT", start_of_day(0), <<Rat(1, 2), <<"bullish">>>>)}

SentDays == {0, 1}

InitSent ==
    /\ prices = {}
    /\ news \in SeqsUpTo(SentDocs, MaxEvents)
    /\ daily = <<>>
    /\ InitControl

AggregateSentiment(ticker, d) ==
    /\ call' = [fn |-> "aggregate_sentiment_for_day", args |-> <<ticker, d>>,
                out |-> aggregate_sentiment_for_day(news, ticker, d)]
    /\ UNCHANGED <<prices, news, daily, uniq_index, clock, agg, corr_run, response, runs,
                   hist, procs, workers, rescored>>

NextSent == \E ticker \in DataTickers, d \in SentDays : AggregateSentiment(ticker, d)

SpecSent == InitSent /\ [][NextSent]_vars

-----------------------------------------------------------------------------
(* Properties of aggregate_sentiment_for_day *)

Aggregated == call.fn = "aggregate_sentiment_for_day"

\* the positions in news of the events of ticker t published in
\* [midnight(d), midnight(d + 1)) that hold a score
ScoredOn(t, d) ==
    {i \in DOMAIN news :
        /\ news[i].ticker = t
        /\ start_of_day(d) <= news[i].published_at
        /\ news[i].published_at < start_of_day(d + 1)
        /\ news[i].sentiment_score # NULL}

\* the sum of the scores of the events at the positions S
RECURSIVE ScoreSum(_)
ScoreSum(S) ==
    IF S = {} THEN Zero
    ELSE LET i == CHOOSE x \in S : TRUE
         IN  RAdd(news[i].sentiment_score, ScoreSum(S \ {i}))

MeanScore(S) == IF S = {} THEN NULL ELSE RDiv(ScoreSum(S), Float(Cardinality(S)))

\* C13: aggregate_sentiment_for_day(T, D) takes exactly the events of T with
\* published_at in [midnight(D), midnight(D) + 1 day) and a non-null score:
\* avg_sentiment_score is the mean of their scores, article_count their number
C13_HalfOpenDay ==
    Aggregated =>
        /\ call.out[1] = MeanScore(ScoredOn(call.args[1], call.args[2]))
        /\ call.out[3] = Cardinality(ScoredOn(call.args[1], call.args[2]))

\* C13 case: day 0 of AAPL with two scored events of different scores, beside
\* an unscored event of day 0 and a scored event at midnight of day 1
C13_Witness ==
    /\ Aggregated
    /\ call.args = <<"AAPL", 0>>
    /\ call.out[3] = 2
    /\ call.out[1] = Zero
    /\ \E i \in DOMAIN news :
          /\ news[i].ticker = "AAPL" /\ news[i].published_at = start_of_day(1)
          /\ news[i].sentiment_score # NULL
    /\ \E i \in DOMAIN news :
          /\ news[i].ticker = "AAPL" /\ news[i].published_at < start_of_day(1)
          /\ news[i].sentiment_score = NULL

\* the positions among S of the events that hold a label
Labelled(S) == {i \in S : news[i].sentiment_label # NULL}

\* the positions among S of the events labelled as the event at position i
SameLabel(S, i) == {j \in Labelled(S) : news[j].sentiment_label = news[i].sentiment_label}

\* the first position among S of the label of the event at position i
FirstOf(S, i) == CHOOSE j \in SameLabel(S, i) : \A k \in SameLabel(S, i) : j <= k

\* the label of the event at position i is the most frequent one among S, and
\* of the most frequent ones the one met first
Dominates(S, i) ==
    \A j \in Labelled(S) :
        \/ news[j].sentiment_label = news[i].sentiment_label
        \/ Cardinality(SameLabel(S, j)) < Cardinality(SameLabel(S, i))
        \/ /\ Cardinality(SameLabel(S, j)) = Cardinality(SameLabel(S, i))
           /\ FirstOf(S, i) < FirstOf(S, j)

\* C14: dominant_label is the non-null sentiment_label of highest frequency
\* among the qualifying events, of several such labels the one whose first
\* occurrence is earliest in retrieval order, and null only when no qualifying
\* event has a label
C14_DominantLabel ==
    Aggregated =>
        IF Labelled(ScoredOn(call.args[1], call.args[2])) = {}
        THEN call.out[2] = NULL
        ELSE \E i \in Labelled(ScoredOn(call.args[1], call.args[2])) :
                /\ call.out[2] = news[i].sentiment_label
                /\ Dominates(ScoredOn(call.args[1], call.args[2]), i)

\* C14 case: two labels of the same frequency, the one met first returned
\* although the other is met last
C14_Witness ==
    /\ Aggregated
    /\ call.out[2] = <<"bearish">>
    /\ LET S == ScoredOn(call.args[1], call.args[2])
       IN  \E i, j \in Labelled(S) :
              /\ i < j
              /\ news[i].sentiment_label = <<"bearish">>
              /\ news[j].sentiment_label = <<"bullish">>
              /\ Cardinality(SameLabel(S, i)) = Cardinality(SameLabel(S, j))
              /\ \A k \in Labelled(S) : k <= j

-----------------------------------------------------------------------------
(* build_price_series applied to stored candles *)

MaxSeries == 3        \* candles in price_snapshots when the function is applied

SeriesCandles ==
    [ticker : {"AAPL"}, ts : Instants, close : Closes]
    \cup {[ticker |-> "MSFT", ts |-> start_of_day(0), close |-> 1]}

InitSeries ==
    /\ prices \in {S \in SetsUpTo(SeriesCandles, MaxSeries) : UniqueTs(S)}
    /\ news = <<>>
    /\ daily = <<>>
    /\ InitControl

BuildPriceSeries(ticker) ==
    /\ call' = [fn |-> "build_price_series", args |-> <<ticker>>,
                out |-> build_price_series(prices, ticker)]
    /\ UNCHANGED <<prices, news, daily, uniq_index, clock, agg, corr_run, response, runs,
                   hist, procs, workers, rescored>>

NextSeries == \E ticker \in DataTickers : BuildPriceSeries(ticker)

SpecSeries == InitSeries /\ [][NextSeries]_vars

-----------------------------------------------------------------------------
(* Properties of build_price_series *)

Built == call.fn = "build_price_series"

\* the candles of the ticker of the call on day d, in chronological order
CandlesOn(d) == SelectSeq(CandlesOf(prices, call.args[1]), LAMBDA c : DateOf(c.ts) = d)

\* the day before d in the series out, or none
PrevDay(out, d) ==
    IF \E e \in DOMAIN out : e < d
    THEN <<CHOOSE e \in DOMAIN out : e < d /\ \A f \in DOMAIN out : f < d => f <= e>>
    ELSE NULL

\* the return of day d taken against the close of the day before it in out
ReturnOverDays(out, d) ==
    IF PrevDay(out, d) = NULL THEN NULL
    ELSE IF out[PrevDay(out, d)[1]].close_price = Zero THEN NULL
    ELSE RDiv(RSub(out[d].close_price, out[PrevDay(out, d)[1]].close_price),
              out[PrevDay(out, d)[1]].close_price)

\* C15: a date on which several candles of the ticker fall has one entry in the
\* series, with close_price the close of the chronologically last of them and
\* daily_return computed against the close of the preceding date of the series
C15_SameDateCandles ==
    Built =>
        \A d \in Days :
            Len(CandlesOn(d)) >= 2 =>
                /\ d \in DOMAIN call.out
                /\ call.out[d].close_price = Float(CandlesOn(d)[Len(CandlesOn(d))].close)
                /\ call.out[d].daily_return = ReturnOverDays(call.out, d)

\* the (date, close) list the loop of build_price_series runs over
SeriesOf(cs) == [i \in DOMAIN cs |-> <<DateOf(cs[i].ts), Float(cs[i].close)>>]

\* daily_ret as the loop computes it for the i-th entry of the list: what the
\* result holds at the entry's date once the loop has run over entries 1..i
EntryReturn(cs, i) ==
    PriceSeriesLoop(SeriesOf(SubSeq(cs, 1, i)), 1, NULL, <<>>)[DateOf(cs[i].ts)].daily_return

\* a return: null or a fraction
IsReturn(r) == r = NULL \/ (Len(r) = 2 /\ r[2] > 0)

\* the entries of the series are the candles cs; each has a null return exactly
\* when it is the first or follows a close of 0, and the result keeps for each
\* date the return of the last entry of the date
GuardedReturns(cs, out) ==
    /\ \A i \in DOMAIN cs :
          /\ IsReturn(EntryReturn(cs, i))
          /\ EntryReturn(cs, i) = NULL <=> (i = 1 \/ cs[i - 1].close = 0)
    /\ \A i \in DOMAIN cs :
          (i = Len(cs) \/ DateOf(cs[i + 1].ts) # DateOf(cs[i].ts)) =>
              out[DateOf(cs[i].ts)].daily_return = EntryReturn(cs, i)

-----------------------------------------------------------------------------
(* Two processes running run_daily_aggregation at the same time.  A step is
   what a process does between two operations on the database: the reads of
   one ticker's candles, or one date's news query and update_one. *)

MaxConcCandles == 2   \* candles in price_snapshots when the processes start

ConcCandles == [ticker : DataTickers, ts : {start_of_day(d) : d \in Days}, close : {1, 2}]

ConcNews == {<<>>, <<SentDoc("AAPL", start_of_day(1), <<Rat(1, 2), <<"bullish">>>>)>>}

InitConc ==
    /\ prices \in {S \in SetsUpTo(ConcCandles, MaxConcCandles) : UniqueTs(S)}
    /\ news \in ConcNews
    /\ daily = <<>>
    /\ InitControl

\* lines 151-154: get_collections() and the window
ProcStart(p, days_back) ==
    /\ procs[p].pc = "idle"
    /\ uniq_index' = TRUE
    /\ procs' = [procs EXCEPT ![p] = [@ EXCEPT !.pc = "ticker", !.days_back = days_back,
                                               !.i = 1]]
    /\ UNCHANGED daily
    /\ UNCHANGED <<prices, news, clock, agg, corr_run, response, runs, hist, call,
                   workers, rescored>>

\* lines 156-162: the next ticker, its price series read, an empty one skipped
ProcTicker(p) ==
    /\ procs[p].pc = "ticker"
    /\ procs' = [procs EXCEPT ![p] =
          IF @.i > Len(TICKERS) THEN [@ EXCEPT !.pc = "done"]
          ELSE IF build_price_series(prices, TICKERS[@.i]) = <<>>
               THEN [@ EXCEPT !.i = @ + 1]
               ELSE [@ EXCEPT !.pc = "date",
                              !.price_series = build_price_series(prices, TICKERS[procs[p].i]),
                              !.ds = SortedInts(DOMAIN build_price_series(prices,
                                                           TICKERS[procs[p].i])),
                              !.k = 1]]
    /\ UNCHANGED <<daily, uniq_index>>
    /\ UNCHANGED <<prices, news, clock, agg, corr_run, response, runs, hist, call,
                   workers, rescored>>

\* what lines 168-185 do for the date at position k of process p
ProcUpsert(p) ==
    UpsertCall(daily, TICKERS[procs[p].i], procs[p].ds[procs[p].k],
               procs[p].price_series[procs[p].ds[procs[p].k]],
               aggregate_sentiment_for_day(news, TICKERS[procs[p].i],
                                           procs[p].ds[procs[p].k])).up

\* lines 164-187: the next date of the ticker, skipped before start_date,
\* otherwise aggregated and upserted; an exception ends the process
ProcDate(p) ==
    /\ procs[p].pc = "date"
    /\ IF procs[p].k > Len(procs[p].ds)
       THEN /\ procs' = [procs EXCEPT ![p] = [@ EXCEPT !.pc = "ticker", !.i = @ + 1]]
            /\ UNCHANGED daily
       ELSE IF procs[p].ds[procs[p].k] < Today - procs[p].days_back
       THEN /\ procs' = [procs EXCEPT ![p] = [@ EXCEPT !.k = @ + 1]]
            /\ UNCHANGED daily
       ELSE /\ daily' = ProcUpsert(p).coll
            /\ procs' = [procs EXCEPT ![p] =
                  IF ProcUpsert(p).raised # NULL
                  THEN [@ EXCEPT !.pc = "raised", !.raised = ProcUpsert(p).raised]
                  ELSE [@ EXCEPT !.k = @ + 1]]
    /\ UNCHANGED uniq_index
    /\ UNCHANGED <<prices, news, clock, agg, corr_run, response, runs, hist, call,
                   workers, rescored>>

NextConc ==
    \E p \in Procs :
        \/ \E days_back \in DaysBackSet : ProcStart(p, days_back)
        \/ ProcTicker(p)
        \/ ProcDate(p)

SpecConc == InitConc /\ [][NextConc]_vars

-----------------------------------------------------------------------------
(* Properties of concurrent aggregation runs *)

AllEnded == \A p \in Procs : procs[p].pc \in {"done", "raised"}

\* the (ticker, date) pairs a sequential run with the widest of the windows
\* upserts: the dates of the ticker's price series from start_date on
RunKeys ==
    {<<t, d>> \in DataTickers \X Days :
        /\ d \in DOMAIN build_price_series(prices, t)
        /\ \E p \in Procs : d >= Today - procs[p].days_back}

\* row is the row of (t, d) with the metric values of a sequential run
MetricRow(row, t, d) ==
    /\ KeyOf(row) = <<t, start_of_day(d)>>
    /\ row.close_price = build_price_series(prices, t)[d].close_price
    /\ row.daily_return = build_price_series(prices, t)[d].daily_return
    /\ <<row.avg_sentiment_score, row.dominant_sentiment_label, row.article_count>>
          = aggregate_sentiment_for_day(news, t, d)

\* C16: when two runs over the same inputs have ended under any interleaving,
\* neither has raised a duplicate-key error and the table has exactly one row
\* for every (ticker, date) of the runs, with the metric values of a
\* sequential run, and no other row
C16_ConcurrentRunsConverge ==
    AllEnded =>
        /\ \A p \in Procs : procs[p].raised # <<"DuplicateKeyError">>
        /\ ~HasDuplicateKey(daily)
        /\ \A key \in RunKeys :
              \E i \in DOMAIN daily : MetricRow(daily[i], key[1], key[2])
        /\ \A i \in DOMAIN daily :
              \E key \in RunKeys : MetricRow(daily[i], key[1], key[2])

-----------------------------------------------------------------------------
(* sentiment_worker.py: two processes running run_worker on one news_events
   collection, without ingestion.  A step is what a process does between two
   operations on the database. *)

MaxStored == 2        \* events in news_events when the workers start
MaxLoops == 2         \* largest max_loops argument
MaxBatch == 2         \* largest batch_size argument

DefaultMaxLoops == 100
DefaultBatchSize == 50

\* finbert_model.py: analyze_headline, with the model's verdict on the two
\* non-empty headlines fixed; an empty headline is neutral with score 0
analyze_headline(headline) ==
    IF headline = "" THEN <<<<"neutral">>, Zero>>
    ELSE IF headline = "up" THEN <<<<"bullish">>, Rat(1, 2)>>
    ELSE <<<<"bearish">>, Rat(-1, 2)>>

\* news_events documents with their headline: unscored as fetch_news.py inserts
\* them, or scored by an earlier run
WorkerDocs ==
    {[ticker |-> "AAPL", headline |-> "up", published_at |-> 0,
      sentiment_score |-> NULL, sentiment_label |-> NULL],
     [ticker |-> "AAPL", headline |-> "", published_at |-> 1,
      sentiment_score |-> NULL, sentiment_label |-> NULL],
     [ticker |-> "AAPL", headline |-> "down", published_at |-> 0,
      sentiment_score |-> Rat(-1, 2), sentiment_label |-> <<"bearish">>]}

InitWorker ==
    /\ prices = {}
    /\ news \in SeqsUpTo(WorkerDocs, MaxStored)
    /\ daily = <<>>
    /\ InitControl

\* _ids of the documents matching {"sentiment_score": None}
Unscored(coll) == {id \in DOMAIN coll : coll[id].sentiment_score = NULL}

\* the _ids S in the order of .sort("published_at", 1), ties in insertion order
RECURSIVE SortedByPublished(_, _)
SortedByPublished(coll, S) ==
    IF S = {} THEN <<>>
    ELSE LET m == CHOOSE a \in S : \A b \in S :
                      \/ coll[a].published_at < coll[b].published_at
                      \/ (coll[a].published_at = coll[b].published_at /\ a <= b)
         IN  <<m>> \o SortedByPublished(coll, S \ {m})

\* .limit(n) for n >= 1
Limit(ids, n) == SubSeq(ids, 1, IF n < Len(ids) THEN n ELSE Len(ids))

fetch_unscored_batch(coll, batch_size) ==
    Limit(SortedByPublished(coll, Unscored(coll)), batch_size)

\* update_one({"_id": id}, {"$set": {sentiment_label, sentiment_score, ...}}):
\* the filter names the _id only
ScoreDoc(coll, id) ==
    [coll EXCEPT ![id] = [@ EXCEPT !.sentiment_label = analyze_headline(coll[id].headline)[1],
                                   !.sentiment_score = analyze_headline(coll[id].headline)[2]]]

\* AfterBatch with a seeded fault: the loop of run_worker has no break
AfterBatchNoBreak(wk, updated) ==
    [wk EXCEPT !.pc = IF wk.i + 1 >= wk.max_loops THEN "done" ELSE "loop",
               !.i = @ + 1,
               !.stopped = IF wk.i + 1 >= wk.max_loops THEN "exhausted" ELSE ""]

\* lines 80-83 and the loop header for the next i: process_batch returned
\* updated in iteration i of the worker wk
AfterBatch(wk, updated) ==
    IF updated = 0
    THEN [wk EXCEPT !.pc = "done", !.i = @ + 1, !.stopped = "break"]
    ELSE [wk EXCEPT !.pc = IF wk.i + 1 >= wk.max_loops THEN "done" ELSE "loop",
                    !.i = @ + 1,
                    !.stopped = IF wk.i + 1 >= wk.max_loops THEN "exhausted" ELSE ""]

\* the arguments of the runs: worker 1 is called with arguments, worker 2 is
\* the script, run_worker()
WorkerArgs(w) ==
    IF w = 1 THEN (0..MaxLoops) \X (1..MaxBatch)
    ELSE {<<DefaultMaxLoops, DefaultBatchSize>>}

\* run_worker(max_loops, batch_size) is called: range(max_loops) may be empty
WorkerStart(w, max_loops, batch_size) ==
    /\ workers[w].pc = "idle"
    /\ workers' = [workers EXCEPT ![w] =
          [@ EXCEPT !.pc = IF max_loops = 0 THEN "done" ELSE "loop",
                    !.stopped = IF max_loops = 0 THEN "exhausted" ELSE "",
                    !.max_loops = max_loops, !.batch_size = batch_size,
                    !.unscored = Cardinality(Unscored(news))]]
    /\ UNCHANGED <<news, rescored>>
    /\ UNCHANGED <<prices, daily, uniq_index, clock, agg, corr_run, response, runs, hist,
                   call, procs>>

\* process_batch, lines 38-47: the batch is read; an empty one returns 0
WorkerFetch(w) ==
    /\ workers[w].pc = "loop"
    /\ workers' = [workers EXCEPT ![w] =
          IF fetch_unscored_batch(news, @.batch_size) = <<>>
          THEN AfterBatch(@, 0)
          ELSE [@ EXCEPT !.pc = "batch",
                         !.docs = fetch_unscored_batch(news, workers[w].batch_size),
                         !.pos = 1, !.updated_count = 0]]
    /\ UNCHANGED <<news, rescored>>
    /\ UNCHANGED <<prices, daily, uniq_index, clock, agg, corr_run, response, runs, hist,
                   call, procs>>

\* process_batch, lines 49-68: the next document of the batch is scored and
\* written, or the batch is over and updated_count is returned.  rescored
\* records the documents written while they held a score
WorkerUpdate(w) ==
    /\ workers[w].pc = "batch"
    /\ IF workers[w].pos > Len(workers[w].docs)
       THEN /\ workers' = [workers EXCEPT ![w] = AfterBatch(@, @.updated_count)]
            /\ UNCHANGED <<news, rescored>>
       ELSE /\ news' = ScoreDoc(news, workers[w].docs[workers[w].pos])
            /\ rescored' =
                  IF news[workers[w].docs[workers[w].pos]].sentiment_score # NULL
                  THEN rescored \cup {workers[w].docs[workers[w].pos]}
                  ELSE rescored
            /\ workers' = [workers EXCEPT ![w] =
                  [@ EXCEPT !.pos = @ + 1, !.updated_count = @ + 1]]
    /\ UNCHANGED <<prices, daily, uniq_index, clock, agg, corr_run, response, runs, hist,
                   call, procs>>

NextWorker ==
    \E w \in Workers :
        \/ \E args \in WorkerArgs(w) : WorkerStart(w, args[1], args[2])
        \/ WorkerFetch(w)
        \/ WorkerUpdate(w)

SpecWorker == InitWorker /\ [][NextWorker]_vars

\* a process that has started keeps running
WorkerRuns(w) == WorkerFetch(w) \/ WorkerUpdate(w)

SpecWorkerFair ==
    /\ InitWorker
    /\ [][NextWorker]_vars
    /\ \A w \in Workers : WF_vars(WorkerRuns(w))

-----------------------------------------------------------------------------
(* Properties of the sentiment worker *)

\* C19: no event is written by process_batch while its sentiment_score is
\* non-null: every event is scored at most once, over all batches and runs
C19_ScoredAtMostOnce == rescored = {}

-----------------------------------------------------------------------------
(* Properties of run_worker *)

WorkerDone(w) == workers[w].pc = "done"

\* no run has made more than max_loops calls of process_batch
BatchesBounded == \A w \in Workers : workers[w].i <= workers[w].max_loops

\* a run that left its loop by the break leaves no event with a null score
DrainedAtBreak ==
    \A w \in Workers : workers[w].stopped = "break" => Unscored(news) = {}

\* every run that has started ends
Terminates ==
    \A w \in Workers : (workers[w].pc # "idle") ~> WorkerDone(w)

\* a run that has ended and started with at most n unscored events left its
\* loop by the break
BreaksUpTo(w, n) ==
    (WorkerDone(w) /\ workers[w].unscored <= n) => workers[w].stopped = "break"

\* fewer events than the batches can hold: max_loops * batch_size - 1 at most
BreaksBelowProduct ==
    \A w \in Workers : BreaksUpTo(w, workers[w].max_loops * workers[w].batch_size - 1)

\* (max_loops - 1) * batch_size: the events fit in all batches but the last
FitsBeforeLast(w) == (workers[w].max_loops - 1) * workers[w].batch_size

BreaksWhenFits == \A w \in Workers : BreaksUpTo(w, FitsBeforeLast(w))

\* C20 as stated: run_worker ends after at most max_loops batches; when it
\* stops because a batch updated 0 events no event has a null score; started
\* with fewer than max_loops * batch_size unscored events it stops in that way
C20_StopsBelowProduct ==
    /\ [](BatchesBounded /\ DrainedAtBreak /\ BreaksBelowProduct)
    /\ Terminates

\* C20: run_worker ends after at most max_loops batches; when it stops because
\* a batch updated 0 events no event has a null score; started with at most
\* (max_loops - 1) * batch_size unscored events it stops in that way
C20_StopsWhenBatchesSuffice ==
    /\ [](BatchesBounded /\ DrainedAtBreak /\ BreaksWhenFits)
    /\ Terminates

\* C20 case: a run alone, started with as many unscored events as its batches
\* but the last can hold, has filled them and left by the break in its last
\* iteration
C20_Witness ==
    /\ workers[2].pc = "idle"
    /\ WorkerDone(1)
    /\ workers[1].stopped = "break"
    /\ workers[1].max_loops >= 2
    /\ workers[1].i = workers[1].max_loops
    /\ workers[1].unscored = FitsBeforeLast(1)

-----------------------------------------------------------------------------
(* Properties of sequences of runs *)

LastRunWasCorr == Len(runs) >= 1 /\ runs[Len(runs)].kind = "corr"

\* the row at position i of ids holds the coefficient of its window of W rows
HoldsWindowCorr(coll, ids, i, W) ==
    /\ coll[ids[i]].has_corr
    /\ coll[ids[i]].rolling_corr_7d = CorrOver(WindowPairs(coll, ids, i, W))

\* C21: after any sequence of complete aggregation and correlation runs that
\* ends with a correlation run with window W, every row of every ticker of
\* TICKERS has the field rolling_corr_7d, equal to the Pearson coefficient of
\* the valid pairs among the current values of the row and of the up to W-1
\* rows before it in date order (null for none)
C21_CorrCurrentAfterRuns ==
    LastRunWasCorr =>
        \A t \in TickerSet :
            \A i \in DOMAIN DocsOf(daily, t) :
                HoldsWindowCorr(daily, DocsOf(daily, t), i, runs[Len(runs)].arg)

\* C21 case: a correlation run, then an aggregation run that ran to its end
\* over the candles of a ticker, then the last correlation run, over rows of
\* which one holds a coefficient
C21_Witness ==
    /\ Len(runs) >= 3
    /\ LastRunWasCorr
    /\ runs[Len(runs) - 1].kind = "agg"
    /\ runs[Len(runs) - 2].kind = "corr"
    /\ agg.status = "done"
    /\ \E k \in DOMAIN agg.series : agg.series[k][2] # <<>>
    /\ \E i \in DOMAIN daily : daily[i].ticker = "AAPL" /\ daily[i].rolling_corr_7d # NULL

-----------------------------------------------------------------------------
(* Frame of the correlation pass *)

\* the row new is the row old in every field but those of the $set of the pass
SameButCorr(old, new) ==
    [new EXCEPT !.has_corr = old.has_corr,
                !.rolling_corr_7d = old.rolling_corr_7d,
                !.corr_updated_at = old.corr_updated_at] = old

\* new has the rows of old at their places, those of ticker t changed at most
\* in rolling_corr_7d and corr_updated_at, the others not at all
PassFrame(old, new, t) ==
    /\ Len(new) = Len(old)
    /\ \A i \in DOMAIN old :
          IF old[i].ticker = t THEN SameButCorr(old[i], new[i]) ELSE new[i] = old[i]

\* the rows run_rolling_corr leaves are those it found, changed at most in
\* rolling_corr_7d and corr_updated_at
RunFrame(old, new) ==
    /\ Len(new) = Len(old)
    /\ \A i \in DOMAIN old : SameButCorr(old[i], new[i])

\* C22: a correlation pass for ticker T, with any window, over the rows a step
\* starts from changes only rolling_corr_7d and corr_updated_at of T's rows: no
\* row is inserted or deleted, no other field changes, and no row of another
\* ticker changes; the run over all tickers changes nothing else either
C22_PassFrame ==
    [][/\ \A t \in TickerSet : \A w \in Windows :
             PassFrame(daily, update_rolling_corr_for_ticker(daily, t, w), t)
       /\ RunFrame(daily, daily')]_vars

\* C22 case: the pass has written a coefficient on a row of AAPL and the
\* table holds a row of MSFT, on the day of a row of AAPL
C22_Witness ==
    /\ CorrDone
    /\ \E i, j \in DOMAIN daily :
          /\ daily[i].ticker = "AAPL" /\ daily[i].rolling_corr_7d # NULL
          /\ daily[j].ticker = "MSFT" /\ daily[j].has_corr

====
